---- MODULE Spec2Model ----
(***************************************************************************)
(* Career Advisor (src/main.py): the Streamlit script as a state machine.  *)
(* One action is one run of the script for one user interaction, including *)
(* the run that st.rerun() starts.  The state is st.session_state plus     *)
(* what the last run sent, received and displayed.                         *)
(***************************************************************************)
EXTENDS Integers, Sequences, FiniteSets, TLC

VARIABLES
    step, conversation, clarify_question, clarify_response, results,
                \* st.session_state
    op,         \* the widget that started the last script run
    sent,       \* the requests the last run posted, in order
    reply,      \* what the endpoint answered to the last run's request
    outcome,    \* what get_career_advice returned (or raised) in the last run
    shown,      \* the message the last run displayed
    secrets,    \* what .streamlit/secrets.toml holds
    environ,    \* OPENROUTER_API_KEY in os.environ once load_dotenv() has run
    present,    \* the keys st.session_state has
    peer,       \* st.session_state of a second browser session
    actor       \* the session the last run belonged to (1: this one, 2: the peer)

vars == <<step, conversation, clarify_question, clarify_response, results,
          op, sent, reply, outcome, shown, secrets, environ, present, peer, actor>>

----------------------------------------------------------------------------
(* Bounds *)

MaxLen == 1      \* longest text a user types; a plain answer may be one symbol longer

----------------------------------------------------------------------------
(* Python strings: sequences of symbols; " " is the whitespace symbol *)

Chars == {" ", "a"}

SeqsUpTo(S, n) == UNION {[1..k -> S] : k \in 0..n}

Texts == SeqsUpTo(Chars, MaxLen)
\* what the user types into the response input (other words than the conversation's)
ResponseTexts == SeqsUpTo({" ", "b"}, MaxLen)
PlainTexts == SeqsUpTo(Chars, MaxLen + 1)

RECURSIVE lstrip(_)
lstrip(s) == IF s = <<>> THEN s
             ELSE IF Head(s) = " " THEN lstrip(Tail(s)) ELSE s

RECURSIVE rstrip(_)
rstrip(s) == IF s = <<>> THEN s
             ELSE IF s[Len(s)] = " " THEN rstrip(SubSeq(s, 1, Len(s) - 1)) ELSE s

strip(s) == rstrip(lstrip(s))

\* truth value of a str in an `if`
truthy(s) == Len(s) > 0

----------------------------------------------------------------------------
(* Python values held in result / clarify_question / results *)

PyNone == [t |-> "None"]
PyStr(s) == [t |-> "str", s |-> s]
PyInt(n) == [t |-> "int", n |-> n]
PyList(items) == [t |-> "list", items |-> items]
PyDict(kv) == [t |-> "dict", kv |-> kv]

\* an f-string: the template and the values formatted into it
PyFmt(template, args) == [t |-> "fstr", template |-> template, args |-> args]

Keys == {"error", "clarify", "interests", "mapping", "explanations"}
Absent == [t |-> "absent"]
EmptyDict == [k \in Keys |-> Absent]
Dict1(k, v) == PyDict([EmptyDict EXCEPT ![k] = v])

\* `key in v`: a key of a dict, a substring of a str, an item of a list
Iterable(v) == v.t \in {"dict", "str", "list"}
Contains(key, v) ==
    CASE v.t = "dict" -> v.kv[key] # Absent
      [] v.t = "str"  -> \E i \in 1..Len(v.s) : v.s[i] = key
      [] v.t = "list" -> \E i \in 1..Len(v.items) : v.items[i] = PyStr(<<key>>)
      [] OTHER -> FALSE

\* v[key] is defined for a dict only (a str or a list takes integer indices)
Subscriptable(v) == v.t = "dict"

----------------------------------------------------------------------------
(* What the endpoint can answer to requests.post *)

\* the values a "key": value member of a JSON object text may carry
FieldVals(k) == IF k = "interests" THEN {PyStr(<<"a">>), PyStr(<<"b">>)}
                ELSE IF k = "clarify" THEN {PyStr(<<"a", " ">>)}
                ELSE {PyStr(<<"a">>)}

KeyOrder == <<"error", "clarify", "interests", "mapping", "explanations">>

\* the members of an object text that writes each key of kv once, in KeyOrder
RECURSIVE MembersFrom(_, _)
MembersFrom(kv, i) ==
    IF i > Len(KeyOrder) THEN <<>>
    ELSE IF kv[KeyOrder[i]] = Absent THEN MembersFrom(kv, i + 1)
    ELSE <<(<<KeyOrder[i], kv[KeyOrder[i]]>>)>> \o MembersFrom(kv, i + 1)

Written == {kv \in [Keys -> UNION {FieldVals(k) : k \in Keys} \cup {Absent}] :
               \A k \in Keys : kv[k] \in FieldVals(k) \cup {Absent}}

\* JSON object texts: each key once, or the interests member written twice
ObjectTexts ==
    {MembersFrom(kv, 1) : kv \in Written}
        \cup {<<(<<"interests", v>>)>> \o MembersFrom(kv, 1) :
                  kv \in {w \in Written : w["interests"] # Absent},
                  v \in FieldVals("interests")}

\* the symbols of a JSON string or of the items of a JSON array at top level
TopWords == {<<>>, <<"a">>, <<"error">>, <<"clarify">>, <<"interests">>}

\* JSON texts: an object is written as its members in order
ObjectDocs == {[t |-> "object", pairs |-> ps] : ps \in ObjectTexts}
OtherDocs == {[t |-> "number", n |-> 42], [t |-> "null"]}
                 \cup {[t |-> "string", s |-> w] : w \in TopWords}
                 \cup {[t |-> "array", items |-> w] : w \in TopWords}
Docs == ObjectDocs \cup OtherDocs

\* choices[0].message.content: null, words that are no JSON, or a JSON text
Contents == {[form |-> "null"]}
                \cup {[form |-> "plain", text |-> x] : x \in PlainTexts}
                \cup {[form |-> "document", doc |-> d] : d \in Docs}

\* response bodies: text that is no JSON (with the exception class the installed
\* requests raises from response.json() for it), JSON without the
\* choices[0].message.content path, or a chat completion
Bodies == {[form |-> "text", text |-> x, raises |-> e] :
               x \in Texts, e \in {"json.JSONDecodeError", "simplejson.JSONDecodeError"}}
              \cup {[form |-> "json", lacks |-> e] : e \in {"KeyError", "IndexError"}}
              \cup {[form |-> "completion", content |-> c] : c \in Contents}

ErrorBodies == {[form |-> "text", text |-> x, raises |-> "json.JSONDecodeError"] :
                    x \in {<<>>, <<"a">>}}

StatusCodes == {201, 500}

Responses == {[kind |-> "fault", e |-> "ConnectionError"]}
                 \cup {[kind |-> "http", status_code |-> 200, body |-> b] : b \in Bodies}
                 \cup {[kind |-> "http", status_code |-> c, body |-> b] :
                            c \in StatusCodes, b \in ErrorBodies}

----------------------------------------------------------------------------
(* json.loads and get_career_advice *)

Return(v) == [raised |-> FALSE, value |-> v]
Raise(e) == [raised |-> TRUE, exc |-> e]

\* dict built from the members of an object text: a later member replaces an
\* earlier one with the same key
RECURSIVE object_hook(_, _)
object_hook(kv, pairs) ==
    IF pairs = <<>> THEN kv
    ELSE object_hook([kv EXCEPT ![Head(pairs)[1]] = Head(pairs)[2]], Tail(pairs))

json_loads(content) ==
    CASE content.form = "null"  -> Raise("TypeError")
      [] content.form = "plain" -> Raise("json.JSONDecodeError")
      [] content.form = "document" ->
           LET d == content.doc IN
           CASE d.t = "object" -> Return(PyDict(object_hook(EmptyDict, d.pairs)))
             [] d.t = "string" -> Return(PyStr(d.s))
             [] d.t = "array"  -> Return(PyList([i \in 1..Len(d.items) |-> PyStr(<<d.items[i]>>)]))
             [] d.t = "number" -> Return(PyInt(d.n))
             [] d.t = "null"   -> Return(PyNone)

\* response.text: the body as it was received
response_text(response) == response.body

\* the user message of the payload
Request(text) == [role |-> "user", content |-> <<"Conversation: ", text>>]

\* line 66 without .strip()
clarify_fallback_untrimmed(content) == Dict1("clarify", PyStr(content.text))

\* line 66: the clarification made of content that is no JSON
clarify_fallback(content) == Dict1("clarify", PyStr(strip(content.text)))

\* lines 61-68: reading the body of a 200 response
read_reply(response) ==
    LET body == response.body IN
    CASE body.form = "text" ->
           \* response.json() raises before `content` is bound
           IF body.raises = "json.JSONDecodeError"
           THEN Raise("UnboundLocalError")
           ELSE Return(Dict1("error", PyFmt("Error: {}", <<body.raises>>)))
      [] body.form = "json" ->
           Return(Dict1("error", PyFmt("Error: {}", <<body.lacks>>)))
      [] body.form = "completion" ->
           LET parsed == json_loads(body.content) IN
           IF ~parsed.raised THEN parsed
           ELSE IF parsed.exc = "json.JSONDecodeError"
           THEN Return(clarify_fallback(body.content))
           ELSE Return(Dict1("error", PyFmt("Error: {}", <<parsed.exc>>)))

\* get_career_advice without the status check of line 58
get_career_advice_no_status_check(response) ==
    IF response.kind = "fault"
    THEN Return(Dict1("error", PyFmt("Error: {}", <<response.e>>)))
    ELSE read_reply(response)

\* get_career_advice without the `except Exception` of line 67
get_career_advice_fault_escapes(response) ==
    IF response.kind = "fault"
    THEN Raise(response.e)
    ELSE IF response.status_code # 200
    THEN Return(Dict1("error", PyFmt("Request failed ({}): {}",
                                     <<response.status_code, response_text(response)>>)))
    ELSE read_reply(response)

\* lines 51-68: the value returned, or the exception that escapes
get_career_advice(response) ==
    IF response.kind = "fault"
    THEN Return(Dict1("error", PyFmt("Error: {}", <<response.e>>)))
    ELSE IF response.status_code # 200
    THEN Return(Dict1("error", PyFmt("Request failed ({}): {}",
                                     <<response.status_code, response_text(response)>>)))
    ELSE read_reply(response)

----------------------------------------------------------------------------
(* The script *)

Session == [step |-> step, conversation |-> conversation,
            clarify_question |-> clarify_question,
            clarify_response |-> clarify_response, results |-> results]

\* lines 74-84: the session at its first run
SessionStart == [step |-> "initial", conversation |-> <<>>,
                 clarify_question |-> PyStr(<<>>), clarify_response |-> <<>>,
                 results |-> PyNone]

SessionKeys == {"step", "conversation", "clarify_question", "clarify_response",
                "results"}

\* lines 74-84: each key is given its first value unless the session has it
init_session(keys, ss) ==
    [k \in SessionKeys |-> IF k \in keys THEN ss[k] ELSE SessionStart[k]]

NoMessage == [kind |-> "none"]
Error(msg) == [kind |-> "error", msg |-> msg]
Warning(msg) == [kind |-> "warning", msg |-> msg]
Exception(e) == [kind |-> "exception", exc |-> e]

NoReply == [kind |-> "none"]
\* no request was posted, so nothing came back
NoCall == [raised |-> FALSE, value |-> [t |-> "nothing"]]

\* The credential.  The secrets file is missing, or lacks the key, or gives a
\* value; the environment lacks the variable (None) or gives a value.
ApiKeys == {<<>>, <<"k">>}
NoSecretsFile == [kind |-> "nofile"]
NoSecret == [kind |-> "nokey"]
Secret(s) == [kind |-> "value", s |-> s]
SecretsStates == {NoSecretsFile, NoSecret} \cup {Secret(s) : s \in ApiKeys}
EnvironStates == {PyNone} \cup {PyStr(s) : s \in ApiKeys}

\* st.secrets["OPENROUTER_API_KEY"] (line 16): without a secrets file Streamlit
\* raises an error that is neither a KeyError nor an AttributeError
secrets_getitem(sec) ==
    CASE sec.kind = "nofile" -> Raise("FileNotFoundError")
      [] sec.kind = "nokey"  -> Raise("KeyError")
      [] sec.kind = "value"  -> Return(PyStr(sec.s))

\* lines 15-18
resolve_api_key(sec, env) ==
    LET found == secrets_getitem(sec) IN
    IF found.raised /\ found.exc \in {"KeyError", "AttributeError"}
    THEN Return(env)
    ELSE found

\* `not v` for None or a str
falsy(v) == v.t = "None" \/ (v.t = "str" /\ v.s = <<>>)

\* startup that goes on without a key
startup_unchecked(sec, env) ==
    LET key == resolve_api_key(sec, env) IN
    IF key.raised THEN [halted |-> TRUE, shown |-> Exception(key.exc)]
    ELSE [halted |-> FALSE, shown |-> NoMessage]

\* lines 15-22: the head of every script run
startup(sec, env) ==
    LET key == resolve_api_key(sec, env) IN
    IF key.raised THEN [halted |-> TRUE, shown |-> Exception(key.exc)]
    ELSE IF falsy(key.value)
    THEN [halted |-> TRUE,
          shown |-> Error("Please set OPENROUTER_API_KEY in your Streamlit secrets or .env file")]
    ELSE [halted |-> FALSE, shown |-> NoMessage]

\* a run: the session it leaves, what it posted, received, got back and displayed
Run(ss, posted, response, result, message) ==
    [ss |-> ss, sent |-> posted, reply |-> response, outcome |-> result,
     shown |-> message]

\* the run st.rerun() starts: no button is pressed and each input widget gives
\* back the value it is created with (lines 88-92, 120-124)
rerun(ss) ==
    CASE ss.step = "initial" -> [ss EXCEPT !.conversation = ss.conversation]
      [] ss.step = "clarify" -> [ss EXCEPT !.clarify_response = ss.clarify_response]
      [] ss.step = "results" -> ss

\* truth value of a value in an `if`
bool(v) ==
    CASE v.t = "dict" -> \E k \in Keys : v.kv[k] # Absent
      [] v.t = "str"  -> v.s # <<>>
      [] v.t = "list" -> v.items # <<>>
      [] v.t = "int"  -> v.n # 0
      [] OTHER -> FALSE

\* lines 157-190: the display of the stored results.  `key in results` holds
\* for a str or a list too, and results[key] then raises TypeError; the values
\* of a dict are displayed whatever they are.
RECURSIVE display(_, _)
display(res, ks) ==
    IF ks = <<>> THEN NoMessage
    ELSE IF ~Iterable(res) THEN Exception("TypeError")
    ELSE IF Contains(Head(ks), res) /\ ~Subscriptable(res) THEN Exception("TypeError")
    ELSE display(res, Tail(ks))

results_panel(ss) ==
    IF bool(ss.results)
    THEN display(ss.results, <<"interests", "mapping", "explanations">>)
    ELSE NoMessage

\* lines 105-107, 140-142: the result is stored and the rerun displays it
show_results(ss, result) ==
    LET next == rerun([ss EXCEPT !.results = result, !.step = "results"]) IN
    [ss |-> next, shown |-> results_panel(next)]

\* initial_result testing for a result before a clarification
initial_result_results_first(ss, result) ==
    IF result.t = "dict" /\ result.kv["error"] = Absent
           /\ result.kv["interests"] = Absent /\ result.kv["clarify"] # Absent
    THEN [ss |-> rerun([ss EXCEPT !.clarify_question = result.kv["clarify"],
                                  !.step = "clarify"]),
          shown |-> NoMessage]
    ELSE show_results(ss, result)

\* initial_result showing an error reply as the results
initial_result_stores_error(ss, result) ==
    IF ~Iterable(result) THEN [ss |-> ss, shown |-> Exception("TypeError")]
    ELSE IF Contains("error", result)
    THEN show_results(ss, result)
    ELSE IF Contains("clarify", result)
    THEN IF Subscriptable(result)
         THEN [ss |-> rerun([ss EXCEPT !.clarify_question = result.kv["clarify"],
                                       !.step = "clarify"]),
               shown |-> NoMessage]
         ELSE [ss |-> ss, shown |-> Exception("TypeError")]
    ELSE show_results(ss, result)

\* lines 98-107: the branches on the value get_career_advice returned
initial_result(ss, result) ==
    IF ~Iterable(result) THEN [ss |-> ss, shown |-> Exception("TypeError")]
    ELSE IF Contains("error", result)
    THEN IF Subscriptable(result)
         THEN [ss |-> ss, shown |-> Error(result.kv["error"])]
         ELSE [ss |-> ss, shown |-> Exception("TypeError")]
    ELSE IF Contains("clarify", result)
    THEN IF Subscriptable(result)
         THEN [ss |-> rerun([ss EXCEPT !.clarify_question = result.kv["clarify"],
                                       !.step = "clarify"]),
               shown |-> NoMessage]
         ELSE [ss |-> ss, shown |-> Exception("TypeError")]
    ELSE show_results(ss, result)

\* initial_button posting the request a second time when the first one failed
initial_button_retries(ss0, text, response) ==
    LET ss == [ss0 EXCEPT !.conversation = text] IN
    IF truthy(strip(ss.conversation))
    THEN LET ret == get_career_advice(response)
             posted == IF ret.raised \/ Contains("error", ret.value)
                       THEN <<Request(ss.conversation), Request(ss.conversation)>>
                       ELSE <<Request(ss.conversation)>> IN
         IF ret.raised
         THEN Run(ss, posted, response, ret, Exception(ret.exc))
         ELSE LET h == initial_result(ss, ret.value) IN
              Run(h.ss, posted, response, ret, h.shown)
    ELSE Run(ss, <<>>, NoReply, NoCall,
             Warning("Please enter your conversation first."))

\* lines 88-109: the run in which "Get Advice" is pressed, the text area holding text
initial_button(ss0, text, response) ==
    LET ss == [ss0 EXCEPT !.conversation = text] IN
    IF truthy(strip(ss.conversation))
    THEN LET ret == get_career_advice(response) IN
         IF ret.raised
         THEN Run(ss, <<Request(ss.conversation)>>, response, ret, Exception(ret.exc))
         ELSE LET h == initial_result(ss, ret.value) IN
              Run(h.ss, <<Request(ss.conversation)>>, response, ret, h.shown)
    ELSE Run(ss, <<>>, NoReply, NoCall,
             Warning("Please enter your conversation first."))

\* clarify_result filling in the fields the reply lacks
clarify_result_defaults(ss, result) ==
    IF result.t = "dict" /\ result.kv["error"] = Absent /\ result.kv["clarify"] = Absent
    THEN [ss |-> rerun([ss EXCEPT
                   !.results = PyDict([k \in Keys |->
                                   IF k \in {"interests", "mapping", "explanations"}
                                          /\ result.kv[k] = Absent
                                   THEN PyStr(<<>>) ELSE result.kv[k]]),
                   !.step = "results"]),
          shown |-> NoMessage]
    ELSE [ss |-> ss, shown |-> NoMessage]

\* clarify_result leaving the response in place after a clarification
clarify_result_keeps_response(ss, result) ==
    IF ~Iterable(result) THEN [ss |-> ss, shown |-> Exception("TypeError")]
    ELSE IF Contains("error", result)
    THEN IF Subscriptable(result)
         THEN [ss |-> ss, shown |-> Error(result.kv["error"])]
         ELSE [ss |-> ss, shown |-> Exception("TypeError")]
    ELSE IF Contains("clarify", result)
    THEN IF Subscriptable(result)
         THEN [ss |-> rerun([ss EXCEPT !.clarify_question = result.kv["clarify"]]),
               shown |-> NoMessage]
         ELSE [ss |-> ss, shown |-> Exception("TypeError")]
    ELSE show_results(ss, result)

\* lines 132-142
clarify_result(ss, result) ==
    IF ~Iterable(result) THEN [ss |-> ss, shown |-> Exception("TypeError")]
    ELSE IF Contains("error", result)
    THEN IF Subscriptable(result)
         THEN [ss |-> ss, shown |-> Error(result.kv["error"])]
         ELSE [ss |-> ss, shown |-> Exception("TypeError")]
    ELSE IF Contains("clarify", result)
    THEN IF Subscriptable(result)
         THEN [ss |-> rerun([ss EXCEPT !.clarify_question = result.kv["clarify"],
                                       !.clarify_response = <<>>]),
               shown |-> NoMessage]
         ELSE [ss |-> ss, shown |-> Exception("TypeError")]
    ELSE show_results(ss, result)

\* clarify_button testing the response without .strip()
clarify_button_unstripped(ss0, text, response) ==
    LET ss == [ss0 EXCEPT !.clarify_response = text] IN
    IF truthy(ss.clarify_response)
    THEN LET ret == get_career_advice(response) IN
         IF ret.raised
         THEN Run(ss, <<Request(ss.clarify_response)>>, response, ret, Exception(ret.exc))
         ELSE LET h == clarify_result(ss, ret.value) IN
              Run(h.ss, <<Request(ss.clarify_response)>>, response, ret, h.shown)
    ELSE Run(ss, <<>>, NoReply, NoCall,
             Warning("Please provide your response first."))

\* clarify_button sending the conversation followed by the response
clarify_button_sends_transcript(ss0, text, response) ==
    LET ss == [ss0 EXCEPT !.clarify_response = text]
        said == ss.conversation \o ss.clarify_response IN
    IF truthy(strip(ss.clarify_response))
    THEN LET ret == get_career_advice(response) IN
         IF ret.raised
         THEN Run(ss, <<Request(said)>>, response, ret, Exception(ret.exc))
         ELSE LET h == clarify_result(ss, ret.value) IN
              Run(h.ss, <<Request(said)>>, response, ret, h.shown)
    ELSE Run(ss, <<>>, NoReply, NoCall,
             Warning("Please provide your response first."))

\* lines 120-144: the run in which the clarify panel's "Get Advice" is pressed
clarify_button(ss0, text, response) ==
    LET ss == [ss0 EXCEPT !.clarify_response = text] IN
    IF truthy(strip(ss.clarify_response))
    THEN LET ret == get_career_advice(response) IN
         IF ret.raised
         THEN Run(ss, <<Request(ss.clarify_response)>>, response, ret, Exception(ret.exc))
         ELSE LET h == clarify_result(ss, ret.value) IN
              Run(h.ss, <<Request(ss.clarify_response)>>, response, ret, h.shown)
    ELSE Run(ss, <<>>, NoReply, NoCall,
             Warning("Please provide your response first."))

\* start_over leaving the question in place
start_over_keeps_question(ss) ==
    rerun([ss EXCEPT !.step = "initial", !.conversation = <<>>,
                     !.clarify_response = <<>>, !.results = PyNone])

\* start_over leaving the response in place
start_over_keeps_response(ss) ==
    rerun([ss EXCEPT !.step = "initial", !.conversation = <<>>,
                     !.clarify_question = PyStr(<<>>), !.results = PyNone])

\* lines 147-153
start_over(ss) ==
    rerun([ss EXCEPT !.step = "initial", !.conversation = <<>>,
                     !.clarify_question = PyStr(<<>>), !.clarify_response = <<>>,
                     !.results = PyNone])

\* new_analysis leaving the results in place
new_analysis_keeps_results(ss) ==
    rerun([ss EXCEPT !.step = "initial", !.conversation = <<>>,
                     !.clarify_question = PyStr(<<>>), !.clarify_response = <<>>])

\* lines 192-198
new_analysis(ss) ==
    rerun([ss EXCEPT !.step = "initial", !.conversation = <<>>,
                     !.clarify_question = PyStr(<<>>), !.clarify_response = <<>>,
                     !.results = PyNone])

----------------------------------------------------------------------------
(* Actions: one script run each *)

\* st.session_state in a run of session sid: that session's own record
session_state(sid) == IF sid = 1 THEN Session ELSE peer

\* one record behind st.session_state for every session
store_shared(sid, ss) == <<ss, ss>>

\* the records of the two sessions once a run of session sid has left ss in
\* st.session_state (the script keeps no other state between runs)
store(sid, ss) == IF sid = 1 THEN <<ss, peer>> ELSE <<Session, ss>>

CommitRun(sid, widget, run) ==
    LET both == store(sid, run.ss) IN
    /\ step' = both[1].step
    /\ conversation' = both[1].conversation
    /\ clarify_question' = both[1].clarify_question
    /\ clarify_response' = both[1].clarify_response
    /\ results' = both[1].results
    /\ peer' = both[2]
    /\ actor' = sid
    /\ op' = widget
    /\ sent' = run.sent
    /\ reply' = run.reply
    /\ outcome' = run.outcome
    /\ shown' = run.shown
    /\ UNCHANGED <<secrets, environ, present>>

\* the run got past lines 15-22 and 74-84 and renders the panel of the step
Rendered(sid, panel) ==
    /\ ~startup(secrets, environ).halted
    /\ present = SessionKeys
    /\ session_state(sid).step = panel

Quiet(ss) == Run(ss, <<>>, NoReply, NoCall, NoMessage)

Init ==
    /\ step = SessionStart.step
    /\ conversation = SessionStart.conversation
    /\ clarify_question = SessionStart.clarify_question
    /\ clarify_response = SessionStart.clarify_response
    /\ results = SessionStart.results
    /\ op = "start"
    /\ sent = <<>>
    /\ reply = NoReply
    /\ outcome = NoCall
    /\ shown = NoMessage
    /\ secrets = Secret(<<"k">>)
    /\ environ = PyNone
    /\ present = SessionKeys
    /\ peer = SessionStart
    /\ actor = 1

\* A run reads each input widget once; the widget gives the text the user left in
\* it.  An edit starts a run of its own, so when a button is pressed the widget
\* holds the text the session already stores.

\* Each panel's runs, for session sid with the inputs drawn from the given sets

\* the user edits the text area; the run stores it (line 88)
EditConversationOf(sid, texts) ==
    /\ Rendered(sid, "initial")
    /\ \E text \in texts :
         CommitRun(sid, "text_area",
                   Quiet([session_state(sid) EXCEPT !.conversation = text]))

GetAdviceInitialOf(sid, responses) ==
    /\ Rendered(sid, "initial")
    /\ \E response \in responses :
         CommitRun(sid, "initial_button",
                   initial_button(session_state(sid), session_state(sid).conversation,
                                  response))

\* the user edits the response input; the run stores it (line 120)
EditResponseOf(sid, texts) ==
    /\ Rendered(sid, "clarify")
    /\ \E text \in texts :
         CommitRun(sid, "text_input",
                   Quiet([session_state(sid) EXCEPT !.clarify_response = text]))

GetAdviceClarifyOf(sid, responses) ==
    /\ Rendered(sid, "clarify")
    /\ \E response \in responses :
         CommitRun(sid, "clarify_button",
                   clarify_button(session_state(sid),
                                  session_state(sid).clarify_response, response))

\* "Start Over" is created after the "Get Advice" block (lines 126-146): a run
\* that ended in an exception there has not put it on the page
StartOverOf(sid) ==
    /\ Rendered(sid, "clarify")
    /\ shown.kind # "exception"
    /\ CommitRun(sid, "start_over", Quiet(start_over(session_state(sid))))

\* "Start New Analysis" is created after the display (lines 157-192)
NewAnalysisOf(sid) ==
    /\ Rendered(sid, "results")
    /\ results_panel(session_state(sid)) = NoMessage
    /\ CommitRun(sid, "new_analysis", Quiet(new_analysis(session_state(sid))))

\* --- one session ---

EditConversation == EditConversationOf(1, Texts)
GetAdviceInitial == GetAdviceInitialOf(1, Responses)
EditResponse == EditResponseOf(1, ResponseTexts)
GetAdviceClarify == GetAdviceClarifyOf(1, Responses)
StartOver == StartOverOf(1)
NewAnalysis == NewAnalysisOf(1)

Next ==
    \/ EditConversation
    \/ GetAdviceInitial
    \/ EditResponse
    \/ GetAdviceClarify
    \/ StartOver
    \/ NewAnalysis

Spec == Init /\ [][Next]_vars

\* --- the first run of a session, under every configuration of the credential ---

InitStartup ==
    /\ secrets \in SecretsStates
    /\ environ \in EnvironStates
    /\ present = {}
    /\ step = SessionStart.step
    /\ conversation = SessionStart.conversation
    /\ clarify_question = SessionStart.clarify_question
    /\ clarify_response = SessionStart.clarify_response
    /\ results = SessionStart.results
    /\ op = "start"
    /\ sent = <<>>
    /\ reply = NoReply
    /\ outcome = NoCall
    /\ shown = NoMessage
    /\ peer = SessionStart
    /\ actor = 1

\* the browser opens or reloads the page of a session that has no state yet:
\* lines 15-22, then, unless the run was stopped, lines 74-84 and the panel.
\* The fields of keys the session lacks are never read.
Load ==
    /\ present = {}
    /\ LET head == startup(secrets, environ) IN
       IF head.halted
       THEN /\ present' = present
            /\ shown' = head.shown
            /\ UNCHANGED <<step, conversation, clarify_question, clarify_response,
                           results>>
       ELSE LET ss == init_session(present, Session) IN
            /\ present' = SessionKeys
            /\ shown' = NoMessage
            /\ step' = ss.step
            /\ conversation' = ss.conversation
            /\ clarify_question' = ss.clarify_question
            /\ clarify_response' = ss.clarify_response
            /\ results' = ss.results
    /\ op' = "load"
    /\ sent' = <<>>
    /\ reply' = NoReply
    /\ outcome' = NoCall
    /\ actor' = 1
    /\ UNCHANGED <<secrets, environ, peer>>

NextStartup ==
    \/ Load
    \/ Next

SpecStartup == InitStartup /\ [][NextStartup]_vars

\* --- two sessions whose runs interleave ---

Sids == {1, 2}
TwoTexts == {<<"a">>}
TwoResponseTexts == {<<"b">>}
\* the endpoint fails, asks a question, or gives a result
TwoResponses ==
    {r \in Responses : r.kind = "fault"}
        \cup {[kind |-> "http", status_code |-> 200,
               body |-> [form |-> "completion",
                         content |-> [form |-> "document",
                                      doc |-> [t |-> "object",
                                               pairs |-> <<(<<k, v>>)>>]]]] :
                  k \in {"clarify"}, v \in FieldVals("clarify")}
        \cup {[kind |-> "http", status_code |-> 200,
               body |-> [form |-> "completion",
                         content |-> [form |-> "document",
                                      doc |-> [t |-> "object",
                                               pairs |-> <<(<<k, v>>)>>]]]] :
                  k \in {"interests"}, v \in FieldVals("interests")}

TwoEditConversation == \E sid \in Sids : EditConversationOf(sid, TwoTexts)
TwoGetAdviceInitial == \E sid \in Sids : GetAdviceInitialOf(sid, TwoResponses)
TwoEditResponse == \E sid \in Sids : EditResponseOf(sid, TwoResponseTexts)
TwoGetAdviceClarify == \E sid \in Sids : GetAdviceClarifyOf(sid, TwoResponses)
TwoStartOver == \E sid \in Sids : StartOverOf(sid)
TwoNewAnalysis == \E sid \in Sids : NewAnalysisOf(sid)

NextTwo ==
    \/ TwoEditConversation
    \/ TwoGetAdviceInitial
    \/ TwoEditResponse
    \/ TwoGetAdviceClarify
    \/ TwoStartOver
    \/ TwoNewAnalysis

SpecTwo == Init /\ [][NextTwo]_vars

----------------------------------------------------------------------------
(* Vocabulary of the properties *)

Blank(text) == \A i \in 1..Len(text) : text[i] = " "

\* the last run posted a request
Called == sent # <<>>

\* the last run got an HTTP 200 whose message content is the string `c`
Answered(r) == r.kind = "http" /\ r.status_code = 200 /\ r.body.form = "completion"
AnsweredPlain(r) == Answered(r) /\ r.body.content.form = "plain"
AnsweredObject(r) ==
    /\ Answered(r)
    /\ r.body.content.form = "document"
    /\ r.body.content.doc.t = "object"

\* the members of the object text of reply r, and whether one has key k
Pairs(r) == r.body.content.doc.pairs
Writes(r, k) == \E i \in 1..Len(Pairs(r)) : Pairs(r)[i][1] = k
\* v is the value of the last member with key k
LastWritten(r, k, v) ==
    \E i \in 1..Len(Pairs(r)) :
        /\ Pairs(r)[i] = <<k, v>>
        /\ \A j \in (i + 1)..Len(Pairs(r)) : Pairs(r)[j][1] # k

\* q is x without its leading and trailing whitespace
TrimOf(q, x) ==
    \E i \in 1..(Len(x) + 1), j \in 0..Len(x) :
        /\ q = SubSeq(x, i, j)
        /\ \A n \in 1..Len(x) : (n < i \/ n > j) => x[n] = " "
        /\ q # <<>> => (q[1] # " " /\ q[Len(q)] # " ")

\* the three outcomes of the Advice Client, read off the value returned
ReturnedDict == ~outcome.raised /\ outcome.value.t = "dict"
IsError == ReturnedDict /\ outcome.value.kv["error"] # Absent
IsClarify == ReturnedDict /\ outcome.value.kv["clarify"] # Absent
IsResult == /\ ~outcome.raised
            /\ outcome.value.t = "dict" =>
                   (outcome.value.kv["error"] = Absent
                        /\ outcome.value.kv["clarify"] = Absent)

----------------------------------------------------------------------------
(* C1..C10 *)

\* C1: after "Get Advice" is pressed in the initial panel with text that is
\* non-empty once trimmed, exactly one request was posted (carrying that text)
\* and the run ended in one of: initial with an Error outcome, clarify with a
\* Clarify outcome, results with a Result outcome.
C1_SubmitOneCallThreeOutcomes ==
    (op = "initial_button" /\ ~Blank(conversation)) =>
        /\ sent = <<Request(conversation)>>
        /\ \/ IsError /\ step = "initial"
           \/ IsClarify /\ step = "clarify"
           \/ IsResult /\ step = "results"

\* C2: a run in which "Get Advice" is pressed (either panel) while its input
\* holds empty or whitespace-only text posts no request and leaves step,
\* clarify_question and results as they were.
C2_BlankSubmitDoesNothing ==
    [][(\/ op' = "initial_button" /\ Blank(conversation)
        \/ op' = "clarify_button" /\ Blank(clarify_response))
       => (/\ sent' = <<>>
           /\ step' = step
           /\ clarify_question' = clarify_question
           /\ results' = results)]_vars

C2_Witness ==
    /\ op = "clarify_button"
    /\ clarify_response = <<" ">>
    /\ shown.kind = "warning"
    /\ step = "clarify"

\* C3: after "Start Over" or "Start New Analysis" the session equals the
\* session-start record and the run posted no request.
C3_ResetRestoresSessionStart ==
    op \in {"start_over", "new_analysis"} =>
        /\ Session = SessionStart
        /\ sent = <<>>

C3_Witness == op = "start_over" /\ Session = SessionStart

\* C4: clarify_question is non-empty only in the clarify step.
C4_QuestionOnlyWhileClarifying ==
    clarify_question # PyStr(<<>>) => step = "clarify"

\* C5: results is populated only in the results step.
C5_ResultsOnlyWhenShowing ==
    results # PyNone => step = "results"

C5_Witness == step = "results" /\ results # PyNone /\ op = "clarify_button"

\* C6: a run whose request is answered with a non-success HTTP status gets an
\* Error outcome whose message carries the status code and the body text,
\* displays it, and leaves step, clarify_question and results as they were.
C6_HttpFailureIsErrorAndStays ==
    [][(/\ sent' # <<>>
        /\ reply'.kind = "http"
        /\ reply'.status_code \notin 200..299)
       => (/\ IsError'
           /\ outcome'.value.kv["error"].template = "Request failed ({}): {}"
           /\ outcome'.value.kv["error"].args = <<reply'.status_code, reply'.body>>
           /\ shown' = Error(outcome'.value.kv["error"])
           /\ step' = step
           /\ clarify_question' = clarify_question
           /\ results' = results)]_vars

C6_Witness ==
    /\ op = "clarify_button"
    /\ reply.kind = "http"
    /\ reply.status_code = 500
    /\ shown.kind = "error"
    /\ step = "clarify"

\* C7: a run whose request ends in a transport fault gets an Error outcome
\* carrying the exception's description, changes no session field, and posts
\* nothing more: one request in that run, and a request only in a run that a
\* "Get Advice" button started.
C7_FaultIsErrorNoRetry ==
    [][/\ (sent' # <<>> /\ reply'.kind = "fault")
          => (/\ outcome' = Return(Dict1("error", PyFmt("Error: {}", <<reply'.e>>)))
              /\ shown' = Error(outcome'.value.kv["error"])
              /\ Session' = Session
              /\ Len(sent') = 1)
       /\ sent' # <<>> => op' \in {"initial_button", "clarify_button"}]_vars

C7_Witness ==
    /\ op = "initial_button"
    /\ reply.kind = "fault"
    /\ shown.kind = "error"
    /\ step = "initial"

\* C8: when the message content of a success (HTTP 200) response is no valid JSON, the
\* outcome is Clarify with the content trimmed of surrounding whitespace as its
\* question, and "Get Advice" in the initial panel ends in the clarify step with
\* clarify_question set to that text.
C8_PlainTextBecomesQuestion ==
    (op = "initial_button" /\ Called /\ AnsweredPlain(reply)) =>
        /\ IsClarify /\ ~IsError
        /\ outcome.value.kv["clarify"].t = "str"
        /\ TrimOf(outcome.value.kv["clarify"].s, reply.body.content.text)
        /\ step = "clarify"
        /\ clarify_question = outcome.value.kv["clarify"]

C8_Witness ==
    /\ op = "initial_button"
    /\ AnsweredPlain(reply)
    /\ reply.body.content.text = <<"a", " ">>
    /\ clarify_question = PyStr(<<"a">>)
    /\ step = "clarify"

\* C9 as stated: when the content is a JSON object with a clarify member,
\* whatever its other members, "Get Advice" in the initial panel stores that
\* value in clarify_question and ends in the clarify step.
C9_Original ==
    (op = "initial_button" /\ Called /\ AnsweredObject(reply)
         /\ Writes(reply, "clarify")) =>
        /\ step = "clarify"
        /\ LastWritten(reply, "clarify", clarify_question)

\* C9 amended: when the content is a JSON object with a clarify member and no
\* error member, whatever its other members, "Get Advice" in the initial panel
\* stores that value in clarify_question and ends in the clarify step.
C9_ClarifyMemberUnlessError ==
    (op = "initial_button" /\ Called /\ AnsweredObject(reply)
         /\ Writes(reply, "clarify") /\ ~Writes(reply, "error")) =>
        /\ step = "clarify"
        /\ LastWritten(reply, "clarify", clarify_question)

C9_Witness ==
    /\ op = "initial_button"
    /\ AnsweredObject(reply)
    /\ Writes(reply, "clarify") /\ Writes(reply, "interests") /\ Writes(reply, "mapping")
    /\ step = "clarify"
    /\ clarify_question = PyStr(<<"a", " ">>)

\* results holds exactly the members of the object text of reply r
HoldsMembersOf(r) ==
    /\ results.t = "dict"
    /\ \A k \in Keys :
          IF Writes(r, k) THEN LastWritten(r, k, results.kv[k])
          ELSE results.kv[k] = Absent

WritesResultField(r) ==
    Writes(r, "interests") \/ Writes(r, "mapping") \/ Writes(r, "explanations")

\* C10 as stated: when the content is a JSON object with interests / mapping /
\* explanations members, "Get Advice" (either panel) stores exactly the members
\* of the reply in results and ends in the results step.
C10_Original ==
    (op \in {"initial_button", "clarify_button"} /\ Called /\ AnsweredObject(reply)
         /\ WritesResultField(reply)) =>
        /\ step = "results"
        /\ HoldsMembersOf(reply)

\* C10 amended: the same, for an object that has neither an error nor a clarify
\* member.
C10_ResultStoredAsReplied ==
    (op \in {"initial_button", "clarify_button"} /\ Called /\ AnsweredObject(reply)
         /\ WritesResultField(reply)
         /\ ~Writes(reply, "error") /\ ~Writes(reply, "clarify")) =>
        /\ step = "results"
        /\ HoldsMembersOf(reply)

C10_Witness ==
    /\ op = "clarify_button"
    /\ AnsweredObject(reply)
    /\ Writes(reply, "interests") /\ Writes(reply, "mapping")
    /\ ~Writes(reply, "explanations")
    /\ step = "results"
    /\ results.kv["explanations"] = Absent
    /\ results.kv["interests"] # Absent

----------------------------------------------------------------------------
(* C11..C19 *)

\* C11: after each clarification the clarify panel's "Get Advice" receives, however
\* many came before it, the step is still clarify, clarify_question is the
\* question of that outcome and clarify_response is empty.
C11_ClarifyLoop ==
    (op = "clarify_button" /\ Called /\ IsClarify /\ ~IsError) =>
        /\ step = "clarify"
        /\ clarify_question = outcome.value.kv["clarify"]
        /\ clarify_response = <<>>

C11_Witness ==
    /\ op = "clarify_button"
    /\ IsClarify /\ ~IsError
    /\ step = "clarify"
    /\ clarify_question = PyStr(<<"a", " ">>)
    /\ clarify_response = <<>>

\* C12: a run in which the clarify panel's "Get Advice" is pressed with a
\* non-blank response posts one request carrying clarify_response alone, and no
\* such run, whatever its outcome, changes conversation.
C12_ResponseAloneIsSent ==
    [][op' = "clarify_button"
       => (/\ conversation' = conversation
           /\ ~Blank(clarify_response)
                 => sent' = <<Request(clarify_response)>>)]_vars

C12_Witness ==
    /\ op = "clarify_button"
    /\ sent = <<Request(<<"b">>)>>
    /\ conversation = <<"a">>
    /\ step = "results"

\* C13: a run posts at most one request, and only a run in which a "Get Advice"
\* button is pressed posts one; such a run changes step, clarify_question or
\* results only once its request has been answered or has failed; "Start Over",
\* "Start New Analysis" and every run of the results step post none.
C13_AtMostOneBlockingCall ==
    [][/\ Len(sent') <= 1
       /\ sent' # <<>> =>
              /\ op' \in {"initial_button", "clarify_button"}
              /\ reply'.kind \in {"http", "fault"}
       /\ (step' # step \/ clarify_question' # clarify_question \/ results' # results) =>
              \/ op' \in {"start_over", "new_analysis"}
              \/ sent' # <<>> /\ reply'.kind \in {"http", "fault"}
       /\ (op' \in {"start_over", "new_analysis"} \/ step = "results") => sent' = <<>>]_vars

C13_Witness ==
    /\ op = "initial_button"
    /\ Len(sent) = 1
    /\ reply.kind = "fault"
    /\ step = "initial"
    /\ shown.kind = "error"

\* C14: when neither the secrets file nor the environment gives a non-empty
\* key, the session never gets any state, no panel's widget ever starts a run,
\* no request is ever posted, and the first run displays an error.
NoCredential ==
    /\ secrets.kind = "value" => secrets.s = <<>>
    /\ falsy(environ)

C14_NoCredentialHalts ==
    NoCredential =>
        /\ present = {}
        /\ op \in {"start", "load"}
        /\ sent = <<>>
        /\ op = "load" => shown.kind \in {"error", "exception"}

C14_Witness ==
    /\ secrets = NoSecret
    /\ environ = PyNone
    /\ op = "load"
    /\ shown.kind = "error"
    /\ present = {}

\* C15: in every reachable state some widget of the page can start a run, and
\* the session can get back to the initial step: it is there, or "Start Over"
\* (clarify step) or "Start New Analysis" (results step) takes it there, or,
\* the last run having ended before "Start Over" was put on the page, an edit
\* of the response starts a run that puts it there.
C15_NoTerminalState ==
    /\ ENABLED (EditConversation \/ EditResponse \/ StartOver \/ NewAnalysis)
    /\ \/ step = "initial"
       \/ /\ step = "clarify"
          /\ IF shown.kind = "exception"
             THEN ENABLED (EditResponse /\ step' = "clarify" /\ shown'.kind # "exception")
             ELSE ENABLED (StartOver /\ step' = "initial")
       \/ step = "results" /\ ENABLED (NewAnalysis /\ step' = "initial")

C17_SuccessStatusAlwaysReturns ==
    (Called /\ reply.kind = "http" /\ reply.status_code = 200) => ~outcome.raised

\* C18: in the results step, results is the value get_career_advice returned in
\* the last run that posted a request, and neither "error" nor "clarify" is in it.
C18_ResultsAreTheLastReply ==
    step = "results" =>
        /\ Called
        /\ ~outcome.raised
        /\ results = outcome.value
        /\ ~Contains("error", results)
        /\ ~Contains("clarify", results)

C18_Witness ==
    /\ step = "results"
    /\ op = "initial_button"
    /\ results = outcome.value
    /\ results.t = "dict"
    /\ results.kv["interests"] = PyStr(<<"b">>)
    /\ results.kv["mapping"] # Absent

\* C19: in the initial step clarify_question and clarify_response are empty and
\* results is None, whatever runs came before.
C19_InitialHoldsOnlyConversation ==
    step = "initial" =>
        /\ clarify_question = PyStr(<<>>)
        /\ clarify_response = <<>>
        /\ results = PyNone

C19_Witness ==
    /\ step = "initial"
    /\ op = "initial_button"
    /\ shown.kind = "error"
    /\ conversation = <<"a">>
    /\ clarify_question = PyStr(<<>>)
    /\ clarify_response = <<>>
    /\ results = PyNone

============================================================================
